---- MODULE Spec2Model ----
(***************************************************************************)
(* workerd-mock-fetch: the route resolver (findRouteFile,                  *)
(* matchesDynamicRoute, extractParams, extractAllRoutePaths) and the       *)
(* dispatcher (the generated fetch function) of src/src/template.ts.       *)
(*                                                                         *)
(* A JavaScript string is modelled as a sequence of one-character strings, *)
(* so that split, join, replace, startsWith, slice and sort are computed   *)
(* as the code computes them.                                              *)
(***************************************************************************)
EXTENDS Integers, Sequences, FiniteSets, TLC

(***************************************************************************)
(* Bounds of the model.                                                    *)
(***************************************************************************)
\* route tables hold at most MaxNodes nodes (children included)
MaxNodes == 3
\* the route tables of the dispatcher's runs hold at most MaxDispatchNodes
MaxDispatchNodes == 2
\* target paths are at most MaxTargetLen characters long
MaxTargetLen == 3

MaxRows == 2

MaxOthers == 1

(***************************************************************************)
(* Strings.                                                                *)
(***************************************************************************)
\* UTF-16 code units of the characters the model uses (Array.prototype.sort
\* without a comparator orders strings by code unit)
CharCode(c) ==
    CASE c = " " -> 32
      [] c = "," -> 44
      [] c = "." -> 46
      [] c = "/" -> 47
      [] c = "0" -> 48
      [] c = "1" -> 49
      [] c = "2" -> 50
      [] c = "3" -> 51
      [] c = ":" -> 58
      [] c = "?" -> 63
      [] c = "a" -> 97
      [] c = "b" -> 98
      [] c = "f" -> 102
      [] c = "~" -> 126

\* a < b in the order of String.prototype comparison
RECURSIVE StrLess(_, _)
StrLess(a, b) ==
    IF a = <<>> THEN b # <<>>
    ELSE IF b = <<>> THEN FALSE
    ELSE IF Head(a) = Head(b) THEN StrLess(Tail(a), Tail(b))
    ELSE CharCode(Head(a)) < CharCode(Head(b))

\* s.split(sep) for a one-character separator: the pieces between the
\* separators, empty pieces included
RECURSIVE SplitFrom(_, _, _)
SplitFrom(s, sep, cur) ==
    IF s = <<>> THEN <<cur>>
    ELSE IF Head(s) = sep THEN <<cur>> \o SplitFrom(Tail(s), sep, <<>>)
    ELSE SplitFrom(Tail(s), sep, Append(cur, Head(s)))

Split(s, sep) == SplitFrom(s, sep, <<>>)

\* list.filter(Boolean) on a list of strings: the empty string is falsy
FilterBoolean(list) == SelectSeq(list, LAMBDA x : x # <<>>)

\* list.join(sep)
RECURSIVE JoinWith(_, _)
JoinWith(list, sep) ==
    IF list = <<>> THEN <<>>
    ELSE IF Len(list) = 1 THEN list[1]
    ELSE list[1] \o sep \o JoinWith(Tail(list), sep)

\* s.replace(/\/$/, ''): one trailing slash is removed
StripTrailingSlash(s) ==
    IF s # <<>> /\ s[Len(s)] = "/" THEN SubSeq(s, 1, Len(s) - 1) ELSE s

\* s.startsWith(':')
StartsWithColon(s) == s # <<>> /\ s[1] = ":"

\* a || b on strings
OrElse(a, b) == IF a # <<>> THEN a ELSE b

\* list.sort() on strings: ascending by code unit
RECURSIVE InsertSorted(_, _)
InsertSorted(x, sorted) ==
    IF sorted = <<>> THEN <<x>>
    ELSE IF StrLess(x, Head(sorted)) THEN <<x>> \o sorted
    ELSE <<Head(sorted)>> \o InsertSorted(x, Tail(sorted))

RECURSIVE SortStrings(_)
SortStrings(list) ==
    IF list = <<>> THEN <<>>
    ELSE InsertSorted(Head(list), SortStrings(Tail(list)))

(***************************************************************************)
(* path.posix.join of node:path.                                           *)
(***************************************************************************)
\* normalizeString: "" and "." segments are dropped, ".." removes the
\* segment before it, or stays when there is none and the path is relative
RECURSIVE NormalizeSegments(_, _, _)
NormalizeSegments(segs, allowAboveRoot, res) ==
    IF segs = <<>> THEN res
    ELSE LET seg == Head(segs)
             rest == Tail(segs)
         IN  IF seg = <<>> \/ seg = <<".">>
             THEN NormalizeSegments(rest, allowAboveRoot, res)
             ELSE IF seg = <<".", ".">>
             THEN IF res # <<>> /\ res[Len(res)] # <<".", ".">>
                  THEN NormalizeSegments(rest, allowAboveRoot,
                                         SubSeq(res, 1, Len(res) - 1))
                  ELSE IF allowAboveRoot
                  THEN NormalizeSegments(rest, allowAboveRoot, Append(res, seg))
                  ELSE NormalizeSegments(rest, allowAboveRoot, res)
             ELSE NormalizeSegments(rest, allowAboveRoot, Append(res, seg))

\* path.posix.normalize
PosixNormalize(p) ==
    IF p = <<>> THEN <<".">>
    ELSE LET isAbsolute == p[1] = "/"
             trailingSeparator == p[Len(p)] = "/"
             body == JoinWith(NormalizeSegments(Split(p, "/"), ~isAbsolute, <<>>),
                              <<"/">>)
         IN  IF body = <<>>
             THEN IF isAbsolute THEN <<"/">>
                  ELSE IF trailingSeparator THEN <<".", "/">> ELSE <<".">>
             ELSE (IF isAbsolute THEN <<"/">> ELSE <<>>) \o body
                  \o (IF trailingSeparator THEN <<"/">> ELSE <<>>)

\* path.posix.join(a, b): the non-empty arguments joined by "/", normalized
PosixJoin(a, b) ==
    IF a = <<>> /\ b = <<>> THEN <<".">>
    ELSE IF a = <<>> THEN PosixNormalize(b)
    ELSE IF b = <<>> THEN PosixNormalize(a)
    ELSE PosixNormalize(a \o <<"/">> \o b)

(***************************************************************************)
(* Route resolver.                                                         *)
(***************************************************************************)
\* the result of findRouteFile: null, or { file, routePath }
Null == [found |-> FALSE, file |-> <<>>, routePath |-> <<>>]

RouteInfo(file, routePath) == [found |-> TRUE, file |-> file, routePath |-> routePath]

\* path.posix.join(parentPath, route.path || "").replace(/\/$/, '') || "/"
FullPath(parentPath, route) ==
    OrElse(StripTrailingSlash(PosixJoin(parentPath, route.path)), <<"/">>)

\* p === "/" ? "/" : p.replace(/\/$/, '')
NormalizeSlash(p) == IF p = <<"/">> THEN <<"/">> ELSE StripTrailingSlash(p)

\* the loop of matchesDynamicRoute over two segment lists of equal length
RECURSIVE SegmentsMatch(_, _)
SegmentsMatch(routeSegments, targetSegments) ==
    IF routeSegments = <<>> THEN TRUE
    ELSE IF StartsWithColon(Head(routeSegments))
    THEN SegmentsMatch(Tail(routeSegments), Tail(targetSegments))
    ELSE IF Head(routeSegments) # Head(targetSegments) THEN FALSE
    ELSE SegmentsMatch(Tail(routeSegments), Tail(targetSegments))

\* matchesDynamicRoute without the comparison of the segment counts: the
\* loop runs over the route's segments alone
matchesDynamicRoute_NoCount(routePath, targetPath) ==
    LET routeSegments == FilterBoolean(Split(routePath, "/"))
        targetSegments == FilterBoolean(Split(targetPath, "/"))
    IN  IF Len(routeSegments) > Len(targetSegments) THEN FALSE
        ELSE SegmentsMatch(routeSegments, targetSegments)

matchesDynamicRoute(routePath, targetPath) ==
    LET routeSegments == FilterBoolean(Split(routePath, "/"))
        targetSegments == FilterBoolean(Split(targetPath, "/"))
    IN  IF Len(routeSegments) # Len(targetSegments) THEN FALSE
        ELSE SegmentsMatch(routeSegments, targetSegments)

\* RouteMatches on the target path as given, by equality alone
RouteMatches_Exact(fullPath, targetPath) ==
    NormalizeSlash(fullPath) = targetPath

\* the test of findRouteFile on one node
RouteMatches(fullPath, targetPath) ==
    LET normalizedFullPath == NormalizeSlash(fullPath)
        normalizedTargetPath == NormalizeSlash(targetPath)
    IN  \/ normalizedFullPath = normalizedTargetPath
        \/ matchesDynamicRoute(normalizedFullPath, normalizedTargetPath)

\* findRouteFile with all the nodes of a level tested before any of their
\* children is searched
RECURSIVE FirstMatchOfLevel(_, _, _)
FirstMatchOfLevel(targetPath, routeConfig, parentPath) ==
    IF routeConfig = <<>> THEN Null
    ELSE LET fullPath == FullPath(parentPath, Head(routeConfig))
         IN  IF RouteMatches(fullPath, targetPath)
             THEN RouteInfo(Head(routeConfig).file, NormalizeSlash(fullPath))
             ELSE FirstMatchOfLevel(targetPath, Tail(routeConfig), parentPath)

RECURSIVE findRouteFile_LevelFirst(_, _, _)
RECURSIVE FirstMatchBelow(_, _, _)
FirstMatchBelow(targetPath, routeConfig, parentPath) ==
    IF routeConfig = <<>> THEN Null
    ELSE LET result == findRouteFile_LevelFirst(
                           targetPath, Head(routeConfig).children,
                           FullPath(parentPath, Head(routeConfig)))
         IN  IF result.found THEN result
             ELSE FirstMatchBelow(targetPath, Tail(routeConfig), parentPath)

findRouteFile_LevelFirst(targetPath, routeConfig, parentPath) ==
    IF FirstMatchOfLevel(targetPath, routeConfig, parentPath).found
    THEN FirstMatchOfLevel(targetPath, routeConfig, parentPath)
    ELSE FirstMatchBelow(targetPath, routeConfig, parentPath)

\* findRouteFile without the descent into route.children
findRouteFile_TopLevel(targetPath, routeConfig, parentPath) ==
    FirstMatchOfLevel(targetPath, routeConfig, parentPath)

RECURSIVE findRouteFile(_, _, _)
findRouteFile(targetPath, routeConfig, parentPath) ==
    IF routeConfig = <<>> THEN Null
    ELSE LET route == Head(routeConfig)
             fullPath == FullPath(parentPath, route)
         IN  IF RouteMatches(fullPath, targetPath)
             THEN RouteInfo(route.file, NormalizeSlash(fullPath))
             ELSE LET result == findRouteFile(targetPath, route.children, fullPath)
                  IN  IF result.found THEN result
                      ELSE findRouteFile(targetPath, Tail(routeConfig), parentPath)

\* a Record<string, string>: a function from its keys to their values
EmptyRecord == [k \in {} |-> <<>>]

\* params[key] = value
SetKey(params, key, value) ==
    [k \in DOMAIN params \cup {key} |-> IF k = key THEN value ELSE params[k]]

\* Spread with the first object's value kept on a key of both
Spread_FirstWins(a, b) ==
    [k \in DOMAIN a \cup DOMAIN b |-> IF k \in DOMAIN a THEN a[k] ELSE b[k]]

\* { ...a, ...b }
Spread(a, b) ==
    [k \in DOMAIN a \cup DOMAIN b |-> IF k \in DOMAIN b THEN b[k] ELSE a[k]]

\* the loop of extractParams from index i on
RECURSIVE ExtractFrom(_, _, _, _)
ExtractFrom(routeSegments, pathSegments, i, params) ==
    IF i > Len(routeSegments) THEN params
    ELSE LET routeSegment == routeSegments[i]
             pathSegment == IF i <= Len(pathSegments) THEN pathSegments[i] ELSE <<>>
         IN  IF StartsWithColon(routeSegment)
             THEN ExtractFrom(routeSegments, pathSegments, i + 1,
                              SetKey(params, Tail(routeSegment),
                                     OrElse(pathSegment, <<>>)))
             ELSE ExtractFrom(routeSegments, pathSegments, i + 1, params)

\* extractParams with the marker left on the parameter's name
RECURSIVE ExtractFrom_KeepMarker(_, _, _, _)
ExtractFrom_KeepMarker(routeSegments, pathSegments, i, params) ==
    IF i > Len(routeSegments) THEN params
    ELSE IF StartsWithColon(routeSegments[i])
    THEN ExtractFrom_KeepMarker(routeSegments, pathSegments, i + 1,
                                SetKey(params, routeSegments[i],
                                       IF i <= Len(pathSegments)
                                       THEN pathSegments[i] ELSE <<>>))
    ELSE ExtractFrom_KeepMarker(routeSegments, pathSegments, i + 1, params)

extractParams_KeepMarker(routePath, actualPath) ==
    ExtractFrom_KeepMarker(FilterBoolean(Split(routePath, "/")),
                           FilterBoolean(Split(actualPath, "/")), 1, EmptyRecord)

extractParams(routePath, actualPath) ==
    ExtractFrom(FilterBoolean(Split(routePath, "/")),
                FilterBoolean(Split(actualPath, "/")), 1, EmptyRecord)

RECURSIVE extractAllRoutePaths(_, _)
RECURSIVE CollectRoutePaths(_, _)
\* the loop of extractAllRoutePaths: the paths pushed, before the sort
CollectRoutePaths(routeConfig, parentPath) ==
    IF routeConfig = <<>> THEN <<>>
    ELSE LET route == Head(routeConfig)
             fullPath == FullPath(parentPath, route)
         IN  <<fullPath>>
             \o (IF route.children # <<>>
                 THEN extractAllRoutePaths(route.children, fullPath) ELSE <<>>)
             \o CollectRoutePaths(Tail(routeConfig), parentPath)

\* extractAllRoutePaths without the sort
extractAllRoutePaths_Unsorted(routeConfig, parentPath) ==
    CollectRoutePaths(routeConfig, parentPath)

extractAllRoutePaths(routeConfig, parentPath) ==
    SortStrings(CollectRoutePaths(routeConfig, parentPath))

(***************************************************************************)
(* Route tables and target paths of the model.                             *)
(***************************************************************************)
\* route.path of a node: absent (an index or layout route), static, dynamic
RoutePaths == { <<>>, <<"/", "a">>, <<":", "a">>, <<":", "b">> }

\* the trees of exactly n nodes and the ordered forests of exactly n nodes,
\* files left blank
RECURSIVE TreesOf(_, _)
RECURSIVE ForestsOf(_, _)
TreesOf(paths, n) ==
    IF n = 0 THEN {}
    ELSE { [path |-> p, file |-> <<>>, children |-> k] :
             p \in paths, k \in ForestsOf(paths, n - 1) }

ForestsOf(paths, n) ==
    IF n = 0 THEN { <<>> }
    ELSE UNION { { <<t>> \o r : t \in TreesOf(paths, k),
                                r \in ForestsOf(paths, n - k) } :
                 k \in 1..n }

Digit(i) == <<"0", "1", "2", "3">>[((i - 1) % 4) + 1]

\* every node gets a file of its own, named after its place in the table
RECURSIVE WithFiles(_, _)
WithFiles(forest, prefix) ==
    [i \in 1..Len(forest) |->
        [path |-> forest[i].path,
         file |-> prefix \o <<Digit(i)>>,
         children |-> WithFiles(forest[i].children, prefix \o <<Digit(i)>>)]]

\* the tables of at most max nodes whose nodes take their route.path from
\* paths
TablesOver(paths, max) ==
    UNION { { WithFiles(f, <<".", "/", "f">>) : f \in ForestsOf(paths, n) } :
            n \in 0..max }

Tables == TablesOver(RoutePaths, MaxNodes)

\* strings over the characters of target paths, of length n
RECURSIVE StringsOf(_, _)
StringsOf(chars, n) ==
    IF n = 0 THEN { <<>> }
    ELSE { Append(s, c) : s \in StringsOf(chars, n - 1), c \in chars }

TargetPaths == UNION { StringsOf({"/", "a", "b"}, n) : n \in 1..MaxTargetLen }

(***************************************************************************)
(* Values of the dispatcher.                                               *)
(***************************************************************************)
\* a thrown value: its name and its message, the message a string whose
\* literal pieces are single tokens
NoError == [name |-> "", message |-> <<>>]

\* String(error), as a template literal embeds it
ErrorToString(error) == <<error.name, ":", " ">> \o error.message

\* a Response: the object's identity, status, status text, headers and body
NoBody == [present |-> FALSE, text |-> <<>>]
Body(text) == [present |-> TRUE, text |-> text]
NoHeaders == [h \in {} |-> ""]
NoResponse ==
    [id |-> "", status |-> 0, statusText |-> "", headers |-> NoHeaders, body |-> NoBody]

\* a JSON leaf value
Undefined == [t |-> "undefined", s |-> ""]
JsonNull == [t |-> "null", s |-> ""]
JsonString(s) == [t |-> "string", s |-> s]
JsonTrue == [t |-> "boolean", s |-> "true"]

\* JSON.stringify of a leaf (undefined for undefined: the caller tests for it)
StringifyLeaf(v) ==
    IF v.t = "string" THEN <<"\"", v.s, "\"">>
    ELSE IF v.t = "null" THEN <<"null">>
    ELSE <<v.s>>

\* a value one level deep: a leaf, or an object of leaves (keys in insertion
\* order)
Leaf(v) == [t |-> v.t, s |-> v.s, keys |-> <<>>, vals |-> <<>>]
FlatObject(keys, vals) == [t |-> "object", s |-> "", keys |-> keys, vals |-> vals]

\* "key":value of every member whose value is not undefined
RECURSIVE StringifyMembers(_, _, _)
StringifyMembers(keys, vals, i) ==
    IF i > Len(keys) THEN <<>>
    ELSE IF vals[i].t = "undefined" THEN StringifyMembers(keys, vals, i + 1)
    ELSE <<<<"\"", keys[i], "\"", ":">> \o StringifyLeaf(vals[i])>>
         \o StringifyMembers(keys, vals, i + 1)

\* JSON.stringify of a value one level deep
StringifyFlat(v) ==
    IF v.t = "object"
    THEN <<"{">> \o JoinWith(StringifyMembers(v.keys, v.vals, 1), <<",">>) \o <<"}">>
    ELSE StringifyLeaf(v)

\* the init member of a returned object: absent, null, or an object with
\* optional status, statusText and headers (0 and "" for an absent one)
NoInit == [t |-> "absent", status |-> 0, statusText |-> "", headers |-> NoHeaders]
NullInit == [t |-> "null", status |-> 0, statusText |-> "", headers |-> NoHeaders]
InitObject(status, statusText, headers) ==
    [t |-> "object", status |-> status, statusText |-> statusText, headers |-> headers]

\* what a handler returns: a Response, a leaf value, or an object with an
\* optional data member, an optional init member and the members rest
ReturnedResponse(r) ==
    [t |-> "response", response |-> r, leaf |-> Undefined, hasData |-> FALSE,
     data |-> Leaf(Undefined), init |-> NoInit, rest |-> FlatObject(<<>>, <<>>)]
ReturnedLeaf(v) ==
    [t |-> "leaf", response |-> NoResponse, leaf |-> v, hasData |-> FALSE,
     data |-> Leaf(Undefined), init |-> NoInit, rest |-> FlatObject(<<>>, <<>>)]
ReturnedObject(hasData, data, init, rest) ==
    [t |-> "object", response |-> NoResponse, leaf |-> Undefined, hasData |-> hasData,
     data |-> data, init |-> init, rest |-> rest]

\* new Response(body, { status, statusText, headers }): a string body brings
\* the Content-Type text/plain unless the headers name one
NewResponse(body, status, statusText, headers) ==
    [id |-> "new", status |-> status, statusText |-> statusText,
     headers |-> IF body.present /\ "Content-Type" \notin DOMAIN headers
                 THEN [h \in DOMAIN headers \cup {"Content-Type"} |->
                         IF h = "Content-Type" THEN "text/plain;charset=UTF-8"
                         ELSE headers[h]]
                 ELSE headers,
     body |-> body]

\* JSON.stringify(data) of the whole returned value, when it is not undefined
StringifyReturned(data) ==
    IF data.t = "leaf" THEN StringifyLeaf(data.leaf)
    ELSE <<"{">>
         \o JoinWith(
              (IF data.hasData /\ data.data.t # "undefined"
               THEN <<<<"\"", "data", "\"", ":">> \o StringifyFlat(data.data)>>
               ELSE <<>>)
              \o StringifyMembers(data.rest.keys, data.rest.vals, 1),
              <<",">>)
         \o <<"}">>

DefaultStatus == 200

\* convertToResponse without the instanceof test: a returned Response is
\* read and a new one built from it
convertToResponse_Rebuilt(data) ==
    IF data.t = "response"
    THEN NewResponse(data.response.body, data.response.status,
                     data.response.statusText, data.response.headers)
    ELSE IF data.t = "object" /\ data.init.t # "absent"
    THEN NewResponse(IF data.hasData /\ data.data.t # "undefined"
                     THEN Body(StringifyFlat(data.data)) ELSE NoBody,
                     IF data.init.status # 0 THEN data.init.status
                     ELSE DefaultStatus,
                     data.init.statusText, data.init.headers)
    ELSE NewResponse(IF data.t = "leaf" /\ data.leaf.t = "undefined"
                     THEN NoBody ELSE Body(StringifyReturned(data)),
                     DefaultStatus, "",
                     [h \in {"Content-Type"} |-> "application/json"])

convertToResponse(data) ==
    IF data.t = "response" THEN data.response
    ELSE IF data.t = "object" /\ data.init.t # "absent"
    THEN LET body == IF data.hasData /\ data.data.t # "undefined"
                     THEN Body(StringifyFlat(data.data)) ELSE NoBody
         IN  NewResponse(body,
                         IF data.init.status # 0 THEN data.init.status
                         ELSE DefaultStatus,
                         data.init.statusText, data.init.headers)
    ELSE LET body == IF data.t = "leaf" /\ data.leaf.t = "undefined"
                     THEN NoBody ELSE Body(StringifyReturned(data))
         IN  NewResponse(body, DefaultStatus, "",
                         [h \in {"Content-Type"} |-> "application/json"])

(***************************************************************************)
(* Inputs of the dispatcher in the model.                                  *)
(***************************************************************************)
\* HTTP methods: the safe ones, a write method and a method outside the
\* type's list
Methods == { "GET", "HEAD", "POST", "PURGE" }

\* route tables of the dispatcher's runs: a static and a dynamic route.path
DispatchRoutePaths == { <<"b">>, <<":", "a">> }

\* the URL strings passed in: empty, one and two segments, with a query
Urls == { <<>>, <<"/", "a">>, <<"/", "b", "/", "a">>, <<"/", "b", "?", "a">> }

\* init.params
ParamBags ==
    { EmptyRecord, [k \in {<<"a">>} |-> <<"0">>] }

\* the exports of a route module, by name
Modules ==
    { [k \in {"default"} |-> "component"],
      [k \in {"loader"} |-> "function"],
      [k \in {"action"} |-> "function"],
      [k \in {"action", "default", "loader"} |->
          IF k = "default" THEN "component" ELSE "function"] }

\* Object.keys of a module namespace object: the export names in code unit
\* order
ObjectKeys(m) ==
    SelectSeq(<<"action", "default", "loader">>, LAMBDA k : k \in DOMAIN m)

\* what import() rejects with
ImportCauses ==
    { [name |-> "Error", message |-> <<"No such module">>],
      [name |-> "SyntaxError", message |-> <<"Unexpected token">>] }

\* what a handler throws or rejects with: an error, a thrown redirect
HandlerErrors ==
    { [name |-> "Error", message |-> <<"Unauthorized">>],
      [name |-> "Response", message |-> <<"302">>] }

\* what a handler returns
HandlerResults ==
    { ReturnedResponse([id |-> "r1", status |-> 204, statusText |-> "",
                        headers |-> NoHeaders, body |-> NoBody]),
      ReturnedResponse([id |-> "r2", status |-> 200, statusText |-> "OK",
                        headers |-> NoHeaders, body |-> Body(<<"{", "}">>)]),
      ReturnedObject(TRUE, FlatObject(<<"ok">>, <<JsonTrue>>),
                     InitObject(201, "", NoHeaders), FlatObject(<<>>, <<>>)),
      ReturnedObject(FALSE, Leaf(Undefined), NullInit, FlatObject(<<>>, <<>>)),
      ReturnedObject(FALSE, Leaf(Undefined), NullInit,
                     FlatObject(<<"status">>, <<JsonString("OK")>>)),
      ReturnedObject(FALSE, Leaf(Undefined), InitObject(404, "", NoHeaders),
                     FlatObject(<<>>, <<>>)),
      ReturnedObject(TRUE, Leaf(JsonString("OK")), NoInit, FlatObject(<<>>, <<>>)),
      ReturnedObject(FALSE, Leaf(Undefined), NoInit,
                     FlatObject(<<"status">>, <<JsonString("OK")>>)),
      ReturnedLeaf(JsonString("OK")),
      ReturnedLeaf(JsonNull),
      ReturnedLeaf(Undefined) }

(***************************************************************************)
(* State.                                                                  *)
(***************************************************************************)
VARIABLES
    routes,       \* const routes: the injected route table
    pc,           \* the call: "idle", "resolved", "import", "handler",
                  \* "fulfilled", "rejected"
    input, init,  \* the arguments of the call
    url, method, targetPath, routeInfo, routePath, mod, handler, request,
    routeParams, allParams, result,   \* its locals
    outcome,      \* how the returned promise settled
    imports,      \* the import() calls of the call, in order
    invoked,      \* the handlers the call invoked, in order
    thrown,       \* what import() or the invoked handler threw
    lookups       \* the findRouteFile calls so far, in order: the target of
                  \* each and what it returned

VARIABLES
    db,           \* the rows of the table in env.DB, in the order of their
                  \* insertion
    seedTable, seedData,   \* the arguments of the seedDatabase call
    rowIndex,     \* the place in data of the row the loop is at
    issued,       \* the statements run() was called on, in order
    seedPc,       \* the seedDatabase call: "idle", "delete", "insert",
                  \* "fulfilled", "rejected"
    seedError,    \* what the call rethrew
    others        \* the writes of other clients since the call began

seedVars == <<db, seedTable, seedData, rowIndex, issued, seedPc, seedError, others>>

vars == <<routes, pc, input, init, url, method, targetPath, routeInfo, routePath,
          mod, handler, request, routeParams, allParams, result, outcome,
          imports, invoked, thrown, lookups, seedVars>>

NoInput == [kind |-> "string", url |-> <<>>, method |-> ""]
NoRequestInit == [method |-> "", params |-> EmptyRecord]
NoModule == [k \in {} |-> ""]
NoRequest == [url |-> <<>>, method |-> ""]
NoResult == ReturnedLeaf(Undefined)
Pending == [state |-> "pending", response |-> NoResponse, error |-> NoError]
Fulfilled(response) == [state |-> "fulfilled", response |-> response, error |-> NoError]
Rejected(error) == [state |-> "rejected", response |-> NoResponse, error |-> error]

\* no seedDatabase call, an empty table
NotSeeding ==
    /\ db = <<>> /\ seedTable = "" /\ seedData = <<>> /\ rowIndex = 0
    /\ issued = <<>> /\ seedPc = "idle" /\ seedError = NoError /\ others = 0

\* the state of a call that has not begun
Fresh ==
    /\ input = NoInput /\ init = NoRequestInit
    /\ url = <<>> /\ method = "" /\ targetPath = <<>>
    /\ routeInfo = Null /\ routePath = <<>> /\ mod = NoModule /\ handler = ""
    /\ request = NoRequest /\ routeParams = EmptyRecord /\ allParams = EmptyRecord
    /\ result = NoResult /\ outcome = Pending
    /\ imports = <<>> /\ invoked = <<>> /\ thrown = NoError
    /\ lookups = <<>>

DispatchTables == TablesOver(DispatchRoutePaths, MaxDispatchNodes)

\* the arguments of a call: a URL string, or a Request with its URL (the
\* part after the origin) and its method
Inputs ==
    [kind : {"string"}, url : Urls, method : {""}]
    \cup [kind : {"request"}, url : { u \in Urls : u # <<>> /\ u[1] = "/" },
          method : Methods]

RequestInits == [method : Methods \cup {""}, params : ParamBags]

(***************************************************************************)
(* The dispatcher (__FETCH_FUNCTION_NAME__).                               *)
(***************************************************************************)
\* BeforeQuery that leaves the query in place
BeforeQuery_Keep(s) == OrElse(s, <<"/">>)

\* s.split('?')[0] || '/'
BeforeQuery(s) == OrElse(Split(s, "?")[1], <<"/">>)

\* new URL(input.url).pathname of a Request's URL
Pathname(u) == BeforeQuery(u)

\* url and method of the call
ParseUrl(inp) == IF inp.kind = "string" THEN inp.url ELSE Pathname(inp.url)

\* ParseMethod with init.method taking precedence over a Request's method
ParseMethod_InitFirst(inp, ini) ==
    IF ini.method # "" THEN ini.method
    ELSE IF inp.method # "" THEN inp.method ELSE "GET"

ParseMethod(inp, ini) ==
    IF inp.kind = "string"
    THEN (IF ini.method # "" THEN ini.method ELSE "GET")
    ELSE IF inp.method # "" THEN inp.method
    ELSE IF ini.method # "" THEN ini.method ELSE "GET"

RouteNotFoundError(target, availableRoutes) ==
    [name |-> "Error",
     message |-> <<"Could not find route for path: ">> \o target
                 \o <<". Available routes: ">>
                 \o JoinWith(availableRoutes, <<",", " ">>)]

\* ModuleLoadError without the cause
ModuleLoadError_NoCause(ref, error) ==
    [name |-> "Error",
     message |-> <<"Failed to import route module: ">> \o ref]

ModuleLoadError(ref, error) ==
    [name |-> "Error",
     message |-> <<"Failed to import route module: ">> \o ref
                 \o <<". Error: ">> \o ErrorToString(error)]

IsGetMethod(m) == m = "GET" \/ m = "HEAD"

\* SelectHandler with HEAD taken for a write method
SelectHandler_GetOnly(m) == IF m = "GET" THEN "loader" ELSE "action"

\* isGetMethod ? mod.loader : mod.action, by the name of the export
SelectHandler(m) == IF IsGetMethod(m) THEN "loader" ELSE "action"

\* HandlerNotFoundError listing the two capabilities whatever the module has
HandlerNotFoundError_FixedList(m, target, exports) ==
    [name |-> "Error",
     message |-> <<"No ", SelectHandler(m), " found for route: ">> \o target
                 \o <<" (method: ", m, "). Available exports: ">>
                 \o <<"action", ",", " ", "loader">>]

HandlerNotFoundError(m, target, exports) ==
    [name |-> "Error",
     message |-> <<"No ", SelectHandler(m), " found for route: ">> \o target
                 \o <<" (method: ", m, "). Available exports: ">>
                 \o JoinWith([i \in 1..Len(exports) |-> <<exports[i]>>], <<",", " ">>)]

\* new Request(..., { method, ...requestInit }): requestInit is init without
\* params, so that init.method, when given, is the one that stays
BuildRequest(inp, ini, u, m) ==
    [url |-> IF inp.kind = "string" THEN <<"__BASE_URL__">> \o u
             ELSE <<"https://example.com">> \o inp.url,
     method |-> IF ini.method # "" THEN ini.method ELSE m]

\* lines 187-219: the arguments are parsed and the route resolved; the call
\* throws when there is none and otherwise waits for the import
Call(inp, ini) ==
    /\ pc = "idle"
    /\ LET u == ParseUrl(inp)
           t == BeforeQuery(u)
           info == findRouteFile(t, routes, <<>>)
       IN  /\ input' = inp
           /\ init' = ini
           /\ url' = u
           /\ method' = ParseMethod(inp, ini)
           /\ targetPath' = t
           /\ routeInfo' = info
           /\ lookups' = Append(lookups, [target |-> t, info |-> info])
           /\ IF ~info.found
              THEN /\ outcome' = Rejected(RouteNotFoundError(
                                     t, extractAllRoutePaths(routes, <<>>)))
                   /\ routePath' = <<>>
                   /\ imports' = <<>>
                   /\ pc' = "rejected"
              ELSE /\ outcome' = Pending
                   /\ routePath' = PosixJoin(<<"~">>, info.file)
                   /\ imports' = <<PosixJoin(<<"~">>, info.file)>>
                   /\ pc' = "import"
    /\ mod' = NoModule /\ handler' = "" /\ request' = NoRequest
    /\ routeParams' = EmptyRecord /\ allParams' = EmptyRecord
    /\ result' = NoResult /\ invoked' = <<>> /\ thrown' = NoError
    /\ UNCHANGED <<routes, seedVars>>

\* lines 219-262: the import resolved; the handler is selected, and when the
\* module has it the request and the parameters are built and it is invoked
ImportResolve(m) ==
    /\ pc = "import"
    /\ mod' = m
    /\ LET name == SelectHandler(method)
       IN  IF name \notin DOMAIN m
           THEN /\ outcome' = Rejected(HandlerNotFoundError(
                                  method, targetPath, ObjectKeys(m)))
                /\ pc' = "rejected"
                /\ UNCHANGED <<handler, request, routeParams, allParams, invoked>>
           ELSE /\ handler' = name
                /\ request' = BuildRequest(input, init, url, method)
                /\ routeParams' = extractParams(routeInfo.routePath, targetPath)
                /\ allParams' = Spread(routeParams', init.params)
                /\ invoked' = Append(invoked, name)
                /\ pc' = "handler"
                /\ UNCHANGED outcome
    /\ UNCHANGED <<routes, input, init, url, method, targetPath, routeInfo,
                   routePath, result, imports, thrown, lookups, seedVars>>

\* lines 220-222: the import rejected
ImportReject(error) ==
    /\ pc = "import"
    /\ thrown' = error
    /\ outcome' = Rejected(ModuleLoadError(routePath, error))
    /\ pc' = "rejected"
    /\ UNCHANGED <<routes, input, init, url, method, targetPath, routeInfo,
                   routePath, mod, handler, request, routeParams, allParams,
                   result, imports, invoked, lookups, seedVars>>

\* HandlerReturn with the handler invoked a second time for its value
HandlerReturn_Twice(value) ==
    /\ pc = "handler"
    /\ invoked' = Append(invoked, handler)
    /\ result' = value
    /\ outcome' = Fulfilled(convertToResponse(value))
    /\ pc' = "fulfilled"
    /\ UNCHANGED <<routes, input, init, url, method, targetPath, routeInfo,
                   routePath, mod, handler, request, routeParams, allParams,
                   imports, thrown, lookups, seedVars>>

\* lines 258-265: the handler returned (or its promise fulfilled)
HandlerReturn(value) ==
    /\ pc = "handler"
    /\ result' = value
    /\ outcome' = Fulfilled(convertToResponse(value))
    /\ pc' = "fulfilled"
    /\ UNCHANGED <<routes, input, init, url, method, targetPath, routeInfo,
                   routePath, mod, handler, request, routeParams, allParams,
                   imports, invoked, thrown, lookups, seedVars>>

\* HandlerThrow with the error wrapped the way an import failure is
HandlerThrow_Wrapped(error) ==
    /\ pc = "handler"
    /\ thrown' = error
    /\ outcome' = Rejected([name |-> "Error",
                            message |-> <<"Handler failed: ">>
                                        \o ErrorToString(error)])
    /\ pc' = "rejected"
    /\ UNCHANGED <<routes, input, init, url, method, targetPath, routeInfo,
                   routePath, mod, handler, request, routeParams, allParams,
                   result, imports, invoked, lookups, seedVars>>

\* line 258: the handler threw (or its promise rejected)
HandlerThrow(error) ==
    /\ pc = "handler"
    /\ thrown' = error
    /\ outcome' = Rejected(error)
    /\ pc' = "rejected"
    /\ UNCHANGED <<routes, input, init, url, method, targetPath, routeInfo,
                   routePath, mod, handler, request, routeParams, allParams,
                   result, imports, invoked, lookups, seedVars>>

Init ==
    /\ routes \in DispatchTables
    /\ pc = "idle"
    /\ Fresh
    /\ NotSeeding

Next ==
    \/ \E inp \in Inputs, ini \in RequestInits : Call(inp, ini)
    \/ \E m \in Modules : ImportResolve(m)
    \/ \E error \in ImportCauses : ImportReject(error)
    \/ \E value \in HandlerResults : HandlerReturn(value)
    \/ \E error \in HandlerErrors : HandlerThrow(error)

Spec == Init /\ [][Next]_vars

(***************************************************************************)
(* The route resolver alone: findRouteFile and extractParams applied to    *)
(* every target path, on every table.                                      *)
(***************************************************************************)
\* Resolve taking the entries off the table as it visits them
Resolve_Consuming(target) ==
    /\ pc = "idle"
    /\ targetPath' = target
    /\ routeInfo' = findRouteFile(target, routes, <<>>)
    /\ lookups' = Append(lookups, [target |-> target, info |-> routeInfo'])
    /\ routeParams' = IF routeInfo'.found
                      THEN extractParams(routeInfo'.routePath, target)
                      ELSE EmptyRecord
    /\ routes' = IF routes = <<>> THEN routes ELSE Tail(routes)
    /\ pc' = "resolved"
    /\ UNCHANGED <<input, init, url, method, routePath, mod, handler,
                   request, allParams, result, outcome, imports, invoked, thrown,
                   seedVars>>

\* lines 208 and 251 on a target path
Resolve(target) ==
    /\ pc = "idle"
    /\ targetPath' = target
    /\ routeInfo' = findRouteFile(target, routes, <<>>)
    /\ lookups' = Append(lookups, [target |-> target, info |-> routeInfo'])
    /\ routeParams' = IF routeInfo'.found
                      THEN extractParams(routeInfo'.routePath, target)
                      ELSE EmptyRecord
    /\ pc' = "resolved"
    /\ UNCHANGED <<routes, input, init, url, method, routePath, mod, handler,
                   request, allParams, result, outcome, imports, invoked, thrown,
                   seedVars>>

InitMatch ==
    /\ routes \in Tables
    /\ pc = "idle"
    /\ Fresh
    /\ NotSeeding

NextMatch == \E target \in TargetPaths : Resolve(target)

SpecMatch == InitMatch /\ [][NextMatch]_vars

(***************************************************************************)
(* The route resolver on tables whose route.path values begin or end with  *)
(* a slash.                                                                *)
(***************************************************************************)
SlashRoutePaths == { <<"/">>, <<"a", "/">>, <<"/", "a">>, <<":", "a", "/">> }

InitSlash ==
    /\ routes \in TablesOver(SlashRoutePaths, MaxDispatchNodes)
    /\ pc = "idle"
    /\ Fresh
    /\ NotSeeding

SpecSlash == InitSlash /\ [][NextMatch]_vars

(***************************************************************************)
(* The route resolver on the paths that extractAllRoutePaths lists for the *)
(* table.                                                                  *)
(***************************************************************************)
\* availableRoutes of line 210, as a set
ListedPaths ==
    LET availableRoutes == extractAllRoutePaths(routes, <<>>)
    IN  { availableRoutes[i] : i \in DOMAIN availableRoutes }

NextListed == \E target \in ListedPaths : Resolve(target)

SpecListed == InitMatch /\ [][NextListed]_vars

(***************************************************************************)
(* Two calls of findRouteFile, one after the other, on the same table.     *)
(***************************************************************************)
\* line 208 of a second call
ResolveAgain(target) ==
    /\ pc = "resolved"
    /\ targetPath' = target
    /\ routeInfo' = findRouteFile(target, routes, <<>>)
    /\ lookups' = Append(lookups, [target |-> target, info |-> routeInfo'])
    /\ routeParams' = IF routeInfo'.found
                      THEN extractParams(routeInfo'.routePath, target)
                      ELSE EmptyRecord
    /\ pc' = "again"
    /\ UNCHANGED <<routes, input, init, url, method, routePath, mod, handler,
                   request, allParams, result, outcome, imports, invoked, thrown,
                   seedVars>>

InitAgain ==
    /\ routes \in DispatchTables
    /\ pc = "idle"
    /\ Fresh
    /\ NotSeeding

NextAgain ==
    \/ \E target \in TargetPaths : Resolve(target)
    \/ \E target \in TargetPaths : ResolveAgain(target)

SpecAgain == InitAgain /\ [][NextAgain]_vars

(***************************************************************************)
(* seedDatabase and the table it writes.                                   *)
(***************************************************************************)
\* a row, Record<string, any>: its <<key, value>> pairs in key order
SeedRows ==
    { <<>>,
      << <<"email", "a">> >>,
      << <<"email", "b">>, <<"password", "x">> >> }

\* Object.keys(row), Object.values(row)
RowKeys(row) == [j \in 1..Len(row) |-> row[j][1]]
RowValues(row) == [j \in 1..Len(row) |-> row[j][2]]

\* the data argument: at most MaxRows rows
RECURSIVE RowLists(_)
RowLists(n) ==
    IF n = 0 THEN { <<>> }
    ELSE RowLists(n - 1)
         \cup { Append(d, r) : d \in { l \in RowLists(n - 1) : Len(l) = n - 1 },
                               r \in SeedRows }

\* what the table holds before the call
StoredBefore == { <<>>, << << <<"email", "z">> >> >> }

\* what another client inserts
OtherRow == << <<"email", "y">> >>

\* what run() rejects with
SeedErrors == { [name |-> "Error", message |-> <<"D1_ERROR">>] }

\* `DELETE FROM ${table}`
DeleteStatement(t) ==
    [kind |-> "DELETE", table |-> t, columns |-> <<>>, placeholders |-> <<>>,
     binds |-> <<>>]

\* `INSERT INTO ${table} (${keys.join(', ')}) VALUES (${placeholders})`
\* with bind(...values)
InsertStatement(t, row) ==
    [kind |-> "INSERT", table |-> t, columns |-> RowKeys(row),
     placeholders |-> [j \in 1..Len(RowKeys(row)) |-> "?"],
     binds |-> RowValues(row)]

\* the database accepts the statement: an INSERT names a column at least
\* and binds one value for each placeholder
WellFormed(statement) ==
    statement.kind = "INSERT" =>
        /\ Len(statement.columns) >= 1
        /\ Len(statement.placeholders) = Len(statement.columns)
        /\ Len(statement.binds) = Len(statement.placeholders)

\* the row an INSERT stores: each column with the value bound to its
\* placeholder
StoredRow(statement) ==
    [j \in 1..Len(statement.columns) |-> <<statement.columns[j], statement.binds[j]>>]

\* the for loop at the row after place n: the next INSERT is issued, or
\* the call returns
LoopFrom(n) ==
    IF n < Len(seedData)
    THEN /\ issued' = Append(issued, InsertStatement(seedTable, seedData[n + 1]))
         /\ rowIndex' = n + 1
         /\ seedPc' = "insert"
    ELSE /\ seedPc' = "fulfilled"
         /\ UNCHANGED <<issued, rowIndex>>

\* lines 316-319: the call, up to the await of the DELETE
SeedDatabase(t, d) ==
    /\ seedPc = "idle"
    /\ seedTable' = t
    /\ seedData' = d
    /\ issued' = <<DeleteStatement(t)>>
    /\ seedPc' = "delete"
    /\ UNCHANGED <<db, rowIndex, seedError, others>>
    /\ UNCHANGED <<routes, pc, input, init, url, method, targetPath, routeInfo,
                   routePath, mod, handler, request, routeParams, allParams,
                   result, outcome, imports, invoked, thrown, lookups>>

\* DeleteRan with the table left as it was
DeleteRan_NoClear ==
    /\ seedPc = "delete"
    /\ db' = db
    /\ LoopFrom(0)
    /\ UNCHANGED <<seedTable, seedData, seedError, others>>
    /\ UNCHANGED <<routes, pc, input, init, url, method, targetPath, routeInfo,
                   routePath, mod, handler, request, routeParams, allParams,
                   result, outcome, imports, invoked, thrown, lookups>>

\* line 319 resolved: the table is empty and the loop begins
DeleteRan ==
    /\ seedPc = "delete"
    /\ db' = <<>>
    /\ LoopFrom(0)
    /\ UNCHANGED <<seedTable, seedData, seedError, others>>
    /\ UNCHANGED <<routes, pc, input, init, url, method, targetPath, routeInfo,
                   routePath, mod, handler, request, routeParams, allParams,
                   result, outcome, imports, invoked, thrown, lookups>>

\* line 328 resolved: the row is stored and the loop goes on
InsertRan ==
    /\ seedPc = "insert"
    /\ WellFormed(issued[Len(issued)])
    /\ db' = Append(db, StoredRow(issued[Len(issued)]))
    /\ LoopFrom(rowIndex)
    /\ UNCHANGED <<seedTable, seedData, seedError, others>>
    /\ UNCHANGED <<routes, pc, input, init, url, method, targetPath, routeInfo,
                   routePath, mod, handler, request, routeParams, allParams,
                   result, outcome, imports, invoked, thrown, lookups>>

\* lines 330-333: run() rejected; the error is logged and thrown again
RunFailed(error) ==
    /\ seedPc \in {"delete", "insert"}
    /\ seedError' = error
    /\ seedPc' = "rejected"
    /\ UNCHANGED <<db, seedTable, seedData, rowIndex, issued, others>>
    /\ UNCHANGED <<routes, pc, input, init, url, method, targetPath, routeInfo,
                   routePath, mod, handler, request, routeParams, allParams,
                   result, outcome, imports, invoked, thrown, lookups>>

\* another client of env.DB inserts a row while the call awaits
OtherWrite ==
    /\ seedPc \in {"delete", "insert"}
    /\ others < MaxOthers
    /\ db' = Append(db, OtherRow)
    /\ others' = others + 1
    /\ UNCHANGED <<seedTable, seedData, rowIndex, issued, seedPc, seedError>>
    /\ UNCHANGED <<routes, pc, input, init, url, method, targetPath, routeInfo,
                   routePath, mod, handler, request, routeParams, allParams,
                   result, outcome, imports, invoked, thrown, lookups>>

InitSeed ==
    /\ routes = <<>>
    /\ pc = "idle"
    /\ Fresh
    /\ db \in StoredBefore
    /\ seedTable = "" /\ seedData = <<>> /\ rowIndex = 0
    /\ issued = <<>> /\ seedPc = "idle" /\ seedError = NoError /\ others = 0

NextSeed ==
    \/ \E d \in RowLists(MaxRows) : SeedDatabase("users", d)
    \/ DeleteRan
    \/ InsertRan
    \/ \E error \in SeedErrors : RunFailed(error)
    \/ OtherWrite

SpecSeed == InitSeed /\ [][NextSeed]_vars

(***************************************************************************)
(* Properties.                                                             *)
(***************************************************************************)
\* the non-empty segments of a path
Segments(p) == FilterBoolean(Split(p, "/"))

\* the nodes of a table in declaration order, depth first, a node before
\* its children, each with its file and its canonical path
RECURSIVE PreOrder(_, _)
PreOrder(routeConfig, parentPath) ==
    IF routeConfig = <<>> THEN <<>>
    ELSE <<[file |-> Head(routeConfig).file,
            canonicalPath |-> NormalizeSlash(FullPath(parentPath, Head(routeConfig)))]>>
         \o PreOrder(Head(routeConfig).children,
                     FullPath(parentPath, Head(routeConfig)))
         \o PreOrder(Tail(routeConfig), parentPath)

\* a canonical path matches a target exactly, or segment by segment with
\* the segments that begin with the marker matching anything
PathMatches(canonicalPath, target) ==
    LET rs == Segments(canonicalPath)
        ts == Segments(target)
    IN  \/ canonicalPath = NormalizeSlash(target)
        \/ /\ Len(rs) = Len(ts)
           /\ \A i \in 1..Len(rs) : rs[i][1] = ":" \/ rs[i] = ts[i]

\* the places in the pre-order of the nodes that match the target
MatchingNodes(table, target) ==
    LET nodes == PreOrder(table, <<>>)
    IN  { i \in 1..Len(nodes) : PathMatches(nodes[i].canonicalPath, target) }

Least(S) == CHOOSE i \in S : \A j \in S : i <= j

\* C1: the handler selected and invoked is the loader exactly when the
\* method is GET or HEAD and the action for every other method; the other
\* capability is never invoked
C1_MethodSelectsHandler ==
    LET selected == IF method \in {"GET", "HEAD"} THEN "loader" ELSE "action"
    IN  /\ handler # "" => handler = selected
        /\ \A i \in 1..Len(invoked) : invoked[i] = selected
        /\ pc \in {"handler", "fulfilled"} => invoked = <<selected>>

\* a module with both capabilities, loaded for a method outside the usual
\* ones: its action is invoked, its loader is not
C1_Witness ==
    /\ pc = "handler"
    /\ method = "PURGE"
    /\ DOMAIN mod = {"action", "default", "loader"}
    /\ invoked = <<"action">>

\* C2: findRouteFile returns the first node in depth-first pre-order whose
\* full path matches the target exactly or segment-wise, and null only when
\* no node of the table matches
C2_FirstMatchInPreOrder ==
    pc = "resolved" =>
        LET nodes == PreOrder(routes, <<>>)
            matching == MatchingNodes(routes, targetPath)
            first == nodes[Least(matching)]
        IN  IF matching = {} THEN routeInfo = Null
            ELSE routeInfo = RouteInfo(first.file, first.canonicalPath)

\* the child of the first node and the second node both match, the first
\* node does not: the child is returned
C2_Witness ==
    /\ pc = "resolved"
    /\ Len(routes) = 2
    /\ routes[1].children # <<>>
    /\ MatchingNodes(routes, targetPath) = {2, 3}
    /\ routeInfo.found
    /\ routeInfo.file = routes[1].children[1].file

\* C3: a route whose full path has no parameter marker matches only a
\* target that, once its trailing slash is removed, equals the full path
C3_StaticRouteMatchesOnlyEqualTarget ==
    (/\ pc = "resolved"
     /\ routeInfo.found
     /\ \A i \in 1..Len(routeInfo.routePath) : routeInfo.routePath[i] # ":")
    => routeInfo.routePath = NormalizeSlash(targetPath)

\* C4: the node returned for a target has as many non-empty segments as
\* the target
C4_SegmentCountsAgree ==
    (pc = "resolved" /\ routeInfo.found)
    => Len(Segments(routeInfo.routePath)) = Len(Segments(targetPath))

\* a dynamic route of one segment and a target of two: nothing is returned
C4_Witness ==
    /\ pc = "resolved"
    /\ Len(routes) = 1
    /\ routes[1].path = <<":", "a">>
    /\ routes[1].children = <<>>
    /\ Len(Segments(targetPath)) = 2
    /\ ~routeInfo.found

\* the places of the dynamic segments of a route path, and the name of a
\* dynamic segment
DynamicPlaces(p) ==
    LET segments == Segments(p)
    IN  { i \in 1..Len(segments) : segments[i][1] = ":" }

ParamName(segment) == SubSeq(segment, 2, Len(segment))

\* C5 as stated: a matched route with N dynamic segments yields exactly N
\* parameters, each keyed by the segment's name without the marker and
\* holding the target's segment at the same place
C5_OneEntryPerDynamicSegment ==
    (pc = "resolved" /\ routeInfo.found) =>
        LET rs == Segments(routeInfo.routePath)
            ts == Segments(targetPath)
            dyn == DynamicPlaces(routeInfo.routePath)
        IN  /\ Cardinality(DOMAIN routeParams) = Cardinality(dyn)
            /\ \A i \in dyn :
                  /\ ParamName(rs[i]) \in DOMAIN routeParams
                  /\ routeParams[ParamName(rs[i])] = ts[i]

\* C5, amended: one parameter per distinct name of a dynamic segment (N of
\* them when the N names differ), holding the target's segment at the place
\* of the last dynamic segment of that name
C5_OneEntryPerParameterName ==
    (pc = "resolved" /\ routeInfo.found) =>
        LET rs == Segments(routeInfo.routePath)
            ts == Segments(targetPath)
            dyn == DynamicPlaces(routeInfo.routePath)
        IN  /\ DOMAIN routeParams = { ParamName(rs[i]) : i \in dyn }
            /\ \A i \in dyn :
                  (\A j \in dyn : j > i => rs[j] # rs[i])
                  => routeParams[ParamName(rs[i])] = ts[i]
            /\ (\A i, j \in dyn : i # j => rs[i] # rs[j])
               => Cardinality(DOMAIN routeParams) = Cardinality(dyn)

\* a matched route of two dynamic segments with different names
C5_Witness ==
    /\ pc = "resolved"
    /\ routeInfo.found
    /\ routeInfo.routePath = <<":", "a", "/", ":", "b">>
    /\ Cardinality(DOMAIN routeParams) = 2
    /\ routeParams[<<"a">>] # routeParams[<<"b">>]

\* C6: the parameters handed to the handler hold, for a key of init.params,
\* the value of init.params, and for a key of the path alone the value
\* taken from the path
C6_ExplicitParamsOverride ==
    invoked # <<>> =>
        /\ DOMAIN allParams = DOMAIN routeParams \cup DOMAIN init.params
        /\ \A k \in DOMAIN allParams :
              allParams[k] = IF k \in DOMAIN init.params
                             THEN init.params[k] ELSE routeParams[k]
        /\ DOMAIN routeParams
             = { ParamName(Segments(routeInfo.routePath)[i]) :
                   i \in DynamicPlaces(routeInfo.routePath) }

\* a handler invoked with a parameter given both by the path and by
\* init.params, with different values
C6_Witness ==
    /\ pc = "handler"
    /\ <<"a">> \in DOMAIN routeParams
    /\ <<"a">> \in DOMAIN init.params
    /\ routeParams[<<"a">>] # init.params[<<"a">>]
    /\ allParams[<<"a">>] = <<"0">>

\* the tokens of a message after the first occurrence of a token
RECURSIVE AfterToken(_, _)
AfterToken(message, token) ==
    IF message = <<>> THEN <<>>
    ELSE IF Head(message) = token THEN Tail(message)
    ELSE AfterToken(Tail(message), token)

\* the tokens of a message up to the first occurrence of a token
RECURSIVE BeforeToken(_, _)
BeforeToken(message, token) ==
    IF message = <<>> \/ Head(message) = token THEN <<>>
    ELSE <<Head(message)>> \o BeforeToken(Tail(message), token)

\* the entries of a list written with ", " between them
ListedEntries(text) ==
    LET pieces == Split(text, ",")
    IN  IF text = <<>> THEN <<>>
        ELSE [i \in 1..Len(pieces) |-> IF i = 1 THEN pieces[i] ELSE Tail(pieces[i])]

\* how often a value occurs in a list
Count(list, x) == Cardinality({ i \in 1..Len(list) : list[i] = x })

\* C7: when no node matches, the call fails with the route-not-found error
\* that names the target path and lists the canonical path of every node,
\* one entry per node, in ascending order; nothing is imported or invoked
C7_RouteNotFoundListsAllRoutes ==
    (pc # "idle" /\ MatchingNodes(routes, targetPath) = {}) =>
        LET message == outcome.error.message
            listed == ListedEntries(AfterToken(message, ". Available routes: "))
            nodes == PreOrder(routes, <<>>)
        IN  /\ pc = "rejected"
            /\ outcome.state = "rejected"
            /\ outcome.error.name = "Error"
            /\ BeforeToken(message, ". Available routes: ")
                 = <<"Could not find route for path: ">> \o targetPath
            /\ Len(listed) = Len(nodes)
            /\ \A i \in 1..Len(nodes) :
                  Count(listed, nodes[i].canonicalPath)
                    = Cardinality({ j \in 1..Len(nodes) :
                                      nodes[j].canonicalPath = nodes[i].canonicalPath })
            /\ \A i, j \in 1..Len(listed) : i < j => ~StrLess(listed[j], listed[i])
            /\ imports = <<>> /\ mod = NoModule /\ invoked = <<>>

\* a table of two nodes declared in descending order of their paths, and
\* a target that no node matches
C7_Witness ==
    /\ pc = "rejected"
    /\ MatchingNodes(routes, targetPath) = {}
    /\ Len(routes) = 2
    /\ StrLess(PreOrder(routes, <<>>)[2].canonicalPath,
               PreOrder(routes, <<>>)[1].canonicalPath)

\* C8: when the loaded module lacks the capability the method selects, the
\* call fails with the handler-not-found error that embeds the method, the
\* target path and the names the module does export; no request is built
\* and no handler is invoked
C8_HandlerNotFoundNamesExports ==
    LET selected == IF method \in {"GET", "HEAD"} THEN "loader" ELSE "action"
        message == outcome.error.message
        listed == ListedEntries(AfterToken(message, "). Available exports: "))
    IN  (mod # NoModule /\ selected \notin DOMAIN mod) =>
            /\ pc = "rejected"
            /\ outcome.state = "rejected"
            /\ outcome.error.name = "Error"
            /\ BeforeToken(message, "). Available exports: ")
                 = <<"No ", selected, " found for route: ">> \o targetPath
                   \o <<" (method: ", method>>
            /\ { listed[i] : i \in 1..Len(listed) } = { <<k>> : k \in DOMAIN mod }
            /\ Len(listed) = Cardinality(DOMAIN mod)
            /\ request = NoRequest
            /\ invoked = <<>>

\* a module with the action alone, loaded for a GET
C8_Witness ==
    /\ pc = "rejected"
    /\ method = "GET"
    /\ DOMAIN mod = {"action"}
    /\ outcome.error.message # <<>>

\* C9: when the import fails, the call fails with the module-load error
\* that embeds the reference given to import() and the cause; the import
\* is attempted once and no handler is invoked
C9_ModuleLoadErrorEmbedsCause ==
    (imports # <<>> /\ invoked = <<>> /\ thrown # NoError) =>
        /\ pc = "rejected"
        /\ outcome.state = "rejected"
        /\ outcome.error.name = "Error"
        /\ outcome.error.message
             = <<"Failed to import route module: ">> \o imports[1]
               \o <<". Error: ", thrown.name, ":", " ">> \o thrown.message
        /\ imports = << <<"~", "/">> \o SubSeq(routeInfo.file, 3, Len(routeInfo.file)) >>
        /\ mod = NoModule
        /\ handler = ""

\* the import of a resolved route's module rejected with a syntax error
C9_Witness ==
    /\ pc = "rejected"
    /\ routeInfo.found
    /\ imports # <<>>
    /\ thrown.name = "SyntaxError"

\* C10: when the invoked handler throws, the call fails with the very value
\* thrown; the handler was invoked once and nothing is normalized
C10_HandlerErrorPropagatesUnchanged ==
    (invoked # <<>> /\ thrown # NoError) =>
        /\ pc = "rejected"
        /\ outcome = [state |-> "rejected", response |-> NoResponse, error |-> thrown]
        /\ Len(invoked) = 1
        /\ result = NoResult

\* a handler that threw a redirect
C10_Witness ==
    /\ pc = "rejected"
    /\ invoked # <<>>
    /\ thrown = [name |-> "Response", message |-> <<"302">>]

\* C11: when the handler returns a Response, the call fulfils with that very
\* object: same identity, status, status text, headers and body; nothing is
\* serialized and no Content-Type is added.
C11_ResponsePassedThrough ==
    (pc = "fulfilled" /\ result.t = "response") =>
        /\ outcome.state = "fulfilled"
        /\ outcome.response = result.response
        /\ outcome.response.id = result.response.id
        /\ outcome.response.headers = result.response.headers
        /\ outcome.response.body = result.response.body

\* a handler returned a Response with a body and no Content-Type
C11_Witness ==
    /\ pc = "fulfilled"
    /\ result.t = "response"
    /\ result.response.body.present
    /\ outcome.response.id = "r2"
    /\ outcome.response.body = Body(<<"{", "}">>)

\* C12: when the handler returns an object (not a Response) with a data
\* member and an init member, the response's body is JSON.stringify(data) (no
\* body when data is undefined), its status, status text and headers are
\* those of init, and its status is 200 when init gives none.
C12_DataWithInitBuildsResponse ==
    (pc = "fulfilled" /\ result.t = "object" /\ result.hasData
        /\ result.init.t # "absent") =>
        /\ outcome.response.body =
               (IF result.data.t = "undefined" THEN NoBody
                ELSE Body(StringifyFlat(result.data)))
        /\ outcome.response.status =
               (IF result.init.status # 0 THEN result.init.status ELSE 200)
        /\ outcome.response.statusText = result.init.statusText
        /\ outcome.response.headers = result.init.headers

\* C13: a returned value that is neither a Response nor an object with both
\* a data member and an init member is a plain payload: the body is
\* JSON.stringify of the whole value (no body for undefined), the status is
\* 200 and the header Content-Type: application/json is set.
C13_OtherValuesArePlainPayloads ==
    (pc = "fulfilled" /\ result.t # "response"
        /\ ~(result.t = "object" /\ result.hasData /\ result.init.t # "absent")) =>
        /\ outcome.response.body.present =
               ~(result.t = "leaf" /\ result.leaf.t = "undefined")
        /\ (outcome.response.body.present /\ result.init.t = "absent") =>
               outcome.response.body.text = StringifyReturned(result)
        /\ outcome.response.status = 200
        /\ "Content-Type" \in DOMAIN outcome.response.headers
        /\ outcome.response.headers["Content-Type"] = "application/json"

\* C14: the method that selects the handler is init.method, or GET when it
\* is absent, for a path string; for a Request it is the Request's own method,
\* also when init.method names another one.
C14_MethodResolution ==
    pc # "idle" =>
        /\ (input.kind = "string" /\ init.method # "") => method = init.method
        /\ (input.kind = "string" /\ init.method = "") => method = "GET"
        /\ (input.kind = "request" /\ input.method # "") => method = input.method
        /\ handler # "" =>
               handler = (IF method \in {"GET", "HEAD"} THEN "loader" ELSE "action")

\* a POST Request dispatched with init.method GET reached the action
C14_Witness ==
    /\ pc = "fulfilled"
    /\ input.kind = "request" /\ input.method = "POST"
    /\ init.method = "GET"
    /\ method = "POST"
    /\ invoked = <<"action">>

\* C15: the Request handed to the handler carries the resolved method, the
\* one that selected the handler: the action never receives a GET or HEAD
\* request and the loader never receives a request with another method.
C15_RequestCarriesResolvedMethod ==
    invoked # <<>> =>
        /\ request.method = method
        /\ handler = "action" => request.method \notin {"GET", "HEAD"}
        /\ handler = "loader" => request.method \in {"GET", "HEAD"}

\* the characters of a URL before its first "?"
RECURSIVE UpToQuery(_)
UpToQuery(s) ==
    IF s = <<>> \/ Head(s) = "?" THEN <<>>
    ELSE <<Head(s)>> \o UpToQuery(Tail(s))

\* C16: dispatching p?q resolves the route, imports the module and extracts
\* the path parameters that dispatching p does; no part of the query
\* reaches the target path or a parameter value.
C16_QueryNeverMatched ==
    pc # "idle" =>
        LET p == UpToQuery(input.url)
            t == IF p = <<>> THEN <<"/">> ELSE p
            info == findRouteFile(t, routes, <<>>)
        IN  /\ routeInfo = info
            /\ info.found => imports = <<PosixJoin(<<"~">>, info.file)>>
            /\ ~info.found => imports = <<>>
            /\ invoked # <<>> => routeParams = extractParams(info.routePath, t)
            /\ \A i \in DOMAIN targetPath : targetPath[i] # "?"
            /\ \A k \in DOMAIN routeParams :
                   \A i \in DOMAIN routeParams[k] : routeParams[k][i] # "?"

\* a URL with a query reached a handler of a dynamic route
C16_Witness ==
    /\ pc = "fulfilled"
    /\ input.url = <<"/", "b", "?", "a">>
    /\ routeInfo.found
    /\ routeParams = [k \in {<<"a">>} |-> <<"b">>]

C18_TopLevelIndexRouteIsRoot ==
    \A i \in DOMAIN routes :
        (pc = "resolved" /\ targetPath = <<"/">> /\ routes[i].path = <<>>) =>
            /\ FullPath(<<>>, routes[i]) = <<"/">>
            /\ routeInfo.found
            /\ MatchingNodes(routes, targetPath) # {}

\* C19: for every table and every target path p other than "/", p with one
\* slash appended resolves to the node p resolves to (or to none when p
\* does), and the canonical path of a match ends with "/" only when it is
\* "/" itself.
C19_TrailingSlashIgnored ==
    pc = "resolved" =>
        /\ targetPath # <<"/">> =>
               findRouteFile(targetPath \o <<"/">>, routes, <<>>) = routeInfo
        /\ routeInfo.found =>
               /\ routeInfo.routePath # <<>>
               /\ \/ routeInfo.routePath = <<"/">>
                  \/ routeInfo.routePath[Len(routeInfo.routePath)] # "/"

\* a target without a trailing slash matched a node whose route.path ends
\* with one
C19_Witness ==
    /\ pc = "resolved"
    /\ targetPath = <<"/", "a">>
    /\ routes # <<>>
    /\ routes[1].path = <<"a", "/">>
    /\ routeInfo = RouteInfo(routes[1].file, <<"a">>)
    /\ findRouteFile(<<"/", "a", "/">>, routes, <<>>) = routeInfo

\* C20: the steps of a call come in the order route resolution, module
\* load, handler selection, handler invocation, normalization: a handler is
\* invoked only once the route is resolved, the module loaded and the
\* selected export found in it, and a call that returns a response invoked
\* one handler, once.
C20_StepsInOrder ==
    /\ [](/\ imports # <<>> => (lookups # <<>> /\ routeInfo.found)
          /\ mod # NoModule => Len(imports) = 1
          /\ handler # "" =>
                 /\ mod # NoModule
                 /\ handler \in DOMAIN mod
                 /\ handler = (IF method \in {"GET", "HEAD"} THEN "loader"
                               ELSE "action")
          /\ invoked # <<>> =>
                 /\ routeInfo.found /\ Len(imports) = 1 /\ mod # NoModule
                 /\ invoked = <<handler>>
          /\ outcome.state = "fulfilled" =>
                 /\ Len(lookups) = 1 /\ Len(imports) = 1 /\ Len(invoked) = 1
                 /\ outcome.response = convertToResponse(result))
    /\ [][/\ lookups' # lookups => (pc = "idle" /\ imports = <<>>)
          /\ imports' # imports => (pc = "idle" /\ lookups' # <<>> /\ mod = NoModule)
          /\ mod' # mod => (pc = "import" /\ handler = "" /\ imports # <<>>)
          /\ handler' # handler => (pc = "import" /\ invoked = <<>> /\ mod' # NoModule)
          /\ invoked' # invoked =>
                 (pc = "import" /\ handler' # "" /\ outcome.state = "pending")
          /\ outcome'.state = "fulfilled" =>
                 (pc = "handler" /\ invoked # <<>> /\ outcome.state = "pending")]_vars

\* a call that went through the five steps
C20_Witness ==
    /\ pc = "fulfilled"
    /\ Len(lookups) = 1 /\ lookups[1].info.found
    /\ Len(imports) = 1
    /\ mod = [k \in {"action", "default", "loader"} |->
                 IF k = "default" THEN "component" ELSE "function"]
    /\ invoked = <<"action">>
    /\ outcome.state = "fulfilled"
    /\ outcome.response.status = 201

\* C21: for every table and every node of it, the node's own canonical
\* path, as extractAllRoutePaths lists it, resolves: findRouteFile returns a
\* route whose path matches it, the node itself or one that comes before it
\* in the traversal.
C21_ListedPathsResolve ==
    (pc = "resolved" /\ targetPath \in ListedPaths) =>
        LET nodes == PreOrder(routes, <<>>)
            own == { i \in 1..Len(nodes) : nodes[i].canonicalPath = targetPath }
            hit == { i \in 1..Len(nodes) : nodes[i].file = routeInfo.file }
        IN  /\ routeInfo.found
            /\ own # {}
            /\ hit # {}
            /\ \A i \in hit :
                   /\ i <= Least(own)
                   /\ routeInfo.routePath = nodes[i].canonicalPath
                   /\ PathMatches(nodes[i].canonicalPath, targetPath)

\* the listed path of a child node resolved to that child, none of the
\* nodes before it matching
C21_Witness ==
    /\ pc = "resolved"
    /\ Len(routes) = 1
    /\ routes[1].path = <<"/", "a">>
    /\ Len(routes[1].children) = 1
    /\ routes[1].children[1].path = <<":", "b">>
    /\ targetPath = <<"/", "a", "/", ":", "b">>
    /\ targetPath \in ListedPaths
    /\ routeInfo = RouteInfo(routes[1].children[1].file, targetPath)

\* the statements issued so far are the DELETE of the table, then the
\* INSERT of the rows of data, one by one in their order
SeedStatementsInOrder ==
    issued # <<>> =>
        /\ issued[1].kind = "DELETE" /\ issued[1].table = seedTable
        /\ Len(issued) <= Len(seedData) + 1
        /\ \A j \in 2..Len(issued) :
               /\ issued[j].kind = "INSERT" /\ issued[j].table = seedTable
               /\ Len(issued[j].columns) = Len(seedData[j - 1])
               /\ Len(issued[j].binds) = Len(seedData[j - 1])
               /\ \A k \in 1..Len(seedData[j - 1]) :
                      <<issued[j].columns[k], issued[j].binds[k]>> = seedData[j - 1][k]

\* a call that completed with no other writer left exactly the rows of data
SeedSuccessHoldsData ==
    (seedPc = "fulfilled" /\ others = 0) =>
        /\ db = seedData
        /\ Len(issued) = Len(seedData) + 1

\* the rows of data whose INSERT completed before the call failed
InsertedBeforeFailure ==
    SubSeq(seedData, 1, IF Len(issued) >= 2 THEN Len(issued) - 2 ELSE 0)

\* C22 as stated: the DELETE comes before every INSERT and the rows are
\* inserted one by one in their order; a call that completes with no other
\* writer leaves exactly the given rows; when a statement fails the error
\* is rethrown and the table, already cleared, holds the rows inserted
\* before the failure.
C22_FailureLeavesClearedTable ==
    /\ SeedStatementsInOrder
    /\ SeedSuccessHoldsData
    /\ seedPc = "rejected" =>
           /\ seedError \in SeedErrors
           /\ others = 0 => db = InsertedBeforeFailure

\* C22, amended: as above, but only a failed INSERT leaves the cleared
\* table with the rows inserted before it; when the DELETE itself fails the
\* error is rethrown, no INSERT is issued and the table keeps what it held.
C22_FailedDeleteLeavesTable ==
    /\ [](/\ SeedStatementsInOrder
          /\ SeedSuccessHoldsData
          /\ seedPc = "rejected" =>
                 /\ seedError \in SeedErrors
                 /\ (others = 0 /\ Len(issued) >= 2) => db = InsertedBeforeFailure)
    /\ [][(seedPc = "delete" /\ seedPc' = "rejected") =>
              (db' = db /\ issued' = issued /\ Len(issued) = 1)]_vars
    /\ [][(seedPc \in {"fulfilled", "rejected"}) => (issued' = issued)]_vars

\* the second INSERT failed: the table holds the first row alone
C22_Witness ==
    /\ seedPc = "rejected"
    /\ seedError \in SeedErrors
    /\ others = 0
    /\ Len(seedData) = 2
    /\ Len(issued) = 3
    /\ db = <<seedData[1]>>

====
